---------------------------- MODULE Spec2Model ----------------------------
(***************************************************************************)
(* Change-data-capture import of tools/owl-connect-import.py:              *)
(* compute_record_hash, ensure_table_exists, perform_cdc and               *)
(* import_excel_to_mysql, over a store of named tables and the change log. *)
(*                                                                         *)
(* A Python str is the sequence of its character codes, so that lower(),   *)
(* strip(), replace(), slicing and the ordering of sorted() are computed.  *)
(* A DataFrame is the sequence of its rows; a row is the sequence of its   *)
(* <<column, value>> pairs in column order.                                *)
(***************************************************************************)
EXTENDS Integers, Sequences, FiniteSets, TLC

(***************************************************************************)
(* Python str operations                                                   *)
(***************************************************************************)

\* The code points above 127 that str.lower() maps to one other code point:
\* <<first, last, step, offset>> sends first, first + step, ..., last to
\* themselves plus offset (the table of the interpreter's Unicode database).
lower_table ==
    << <<192,214,1,32>>, <<216,222,1,32>>, <<256,302,2,1>>, <<306,310,2,1>>,
       <<313,327,2,1>>, <<330,374,2,1>>, <<376,376,1,-121>>, <<377,381,2,1>>,
       <<385,385,1,210>>, <<386,388,2,1>>, <<390,390,1,206>>, <<391,391,1,1>>,
       <<393,394,1,205>>, <<395,395,1,1>>, <<398,398,1,79>>, <<399,399,1,202>>,
       <<400,400,1,203>>, <<401,401,1,1>>, <<403,403,1,205>>, <<404,404,1,207>>,
       <<406,406,1,211>>, <<407,407,1,209>>, <<408,408,1,1>>, <<412,412,1,211>>,
       <<413,413,1,213>>, <<415,415,1,214>>, <<416,420,2,1>>, <<422,422,1,218>>,
       <<423,423,1,1>>, <<425,425,1,218>>, <<428,428,1,1>>, <<430,430,1,218>>,
       <<431,431,1,1>>, <<433,434,1,217>>, <<435,437,2,1>>, <<439,439,1,219>>,
       <<440,440,1,1>>, <<444,444,1,1>>, <<452,452,1,2>>, <<453,453,1,1>>,
       <<455,455,1,2>>, <<456,456,1,1>>, <<458,458,1,2>>, <<459,475,2,1>>,
       <<478,494,2,1>>, <<497,497,1,2>>, <<498,500,2,1>>, <<502,502,1,-97>>,
       <<503,503,1,-56>>, <<504,542,2,1>>, <<544,544,1,-130>>, <<546,562,2,1>>,
       <<570,570,1,10795>>, <<571,571,1,1>>, <<573,573,1,-163>>, <<574,574,1,10792>>,
       <<577,577,1,1>>, <<579,579,1,-195>>, <<580,580,1,69>>, <<581,581,1,71>>,
       <<582,590,2,1>>, <<880,882,2,1>>, <<886,886,1,1>>, <<895,895,1,116>>,
       <<902,902,1,38>>, <<904,906,1,37>>, <<908,908,1,64>>, <<910,911,1,63>>,
       <<913,929,1,32>>, <<931,939,1,32>>, <<975,975,1,8>>, <<984,1006,2,1>>,
       <<1012,1012,1,-60>>, <<1015,1015,1,1>>, <<1017,1017,1,-7>>, <<1018,1018,1,1>>,
       <<1021,1023,1,-130>>, <<1024,1039,1,80>>, <<1040,1071,1,32>>, <<1120,1152,2,1>>,
       <<1162,1214,2,1>>, <<1216,1216,1,15>>, <<1217,1229,2,1>>, <<1232,1326,2,1>>,
       <<1329,1366,1,48>>, <<4256,4293,1,7264>>, <<4295,4295,1,7264>>, <<4301,4301,1,7264>>,
       <<5024,5103,1,38864>>, <<5104,5109,1,8>>, <<7312,7354,1,-3008>>, <<7357,7359,1,-3008>>,
       <<7680,7828,2,1>>, <<7838,7838,1,-7615>>, <<7840,7934,2,1>>, <<7944,7951,1,-8>>,
       <<7960,7965,1,-8>>, <<7976,7983,1,-8>>, <<7992,7999,1,-8>>, <<8008,8013,1,-8>>,
       <<8025,8031,2,-8>>, <<8040,8047,1,-8>>, <<8072,8079,1,-8>>, <<8088,8095,1,-8>>,
       <<8104,8111,1,-8>>, <<8120,8121,1,-8>>, <<8122,8123,1,-74>>, <<8124,8124,1,-9>>,
       <<8136,8139,1,-86>>, <<8140,8140,1,-9>>, <<8152,8153,1,-8>>, <<8154,8155,1,-100>>,
       <<8168,8169,1,-8>>, <<8170,8171,1,-112>>, <<8172,8172,1,-7>>, <<8184,8185,1,-128>>,
       <<8186,8187,1,-126>>, <<8188,8188,1,-9>>, <<8486,8486,1,-7517>>, <<8490,8490,1,-8383>>,
       <<8491,8491,1,-8262>>, <<8498,8498,1,28>>, <<8544,8559,1,16>>, <<8579,8579,1,1>>,
       <<9398,9423,1,26>>, <<11264,11311,1,48>>, <<11360,11360,1,1>>, <<11362,11362,1,-10743>>,
       <<11363,11363,1,-3814>>, <<11364,11364,1,-10727>>, <<11367,11371,2,1>>, <<11373,11373,1,-10780>>,
       <<11374,11374,1,-10749>>, <<11375,11375,1,-10783>>, <<11376,11376,1,-10782>>, <<11378,11378,1,1>>,
       <<11381,11381,1,1>>, <<11390,11391,1,-10815>>, <<11392,11490,2,1>>, <<11499,11501,2,1>>,
       <<11506,11506,1,1>>, <<42560,42604,2,1>>, <<42624,42650,2,1>>, <<42786,42798,2,1>>,
       <<42802,42862,2,1>>, <<42873,42875,2,1>>, <<42877,42877,1,-35332>>, <<42878,42886,2,1>>,
       <<42891,42891,1,1>>, <<42893,42893,1,-42280>>, <<42896,42898,2,1>>, <<42902,42920,2,1>>,
       <<42922,42922,1,-42308>>, <<42923,42923,1,-42319>>, <<42924,42924,1,-42315>>, <<42925,42925,1,-42305>>,
       <<42926,42926,1,-42308>>, <<42928,42928,1,-42258>>, <<42929,42929,1,-42282>>, <<42930,42930,1,-42261>>,
       <<42931,42931,1,928>>, <<42932,42946,2,1>>, <<42948,42948,1,-48>>, <<42949,42949,1,-42307>>,
       <<42950,42950,1,-35384>>, <<42951,42953,2,1>>, <<42960,42960,1,1>>, <<42966,42968,2,1>>,
       <<42997,42997,1,1>>, <<65313,65338,1,32>>, <<66560,66599,1,40>>, <<66736,66771,1,40>>,
       <<66928,66964,2,39>>, <<66929,66938,1,39>>, <<66941,66954,1,39>>, <<66957,66962,1,39>>,
       <<66965,66965,1,39>>, <<68736,68786,1,64>>, <<71840,71871,1,32>>, <<93760,93791,1,32>>,
       <<125184,125217,1,34>> >>

\* The code points the context rule of str.lower() for capital sigma skips.
case_ignorable_table ==
    << <<39,39>>, <<46,46>>, <<58,58>>, <<94,94>>, <<96,96>>,
       <<168,168>>, <<173,173>>, <<175,175>>, <<180,180>>, <<183,184>>,
       <<688,879>>, <<884,885>>, <<890,890>>, <<900,901>>, <<903,903>>,
       <<1155,1161>>, <<1369,1369>>, <<1375,1375>>, <<1425,1469>>, <<1471,1471>>,
       <<1473,1474>>, <<1476,1477>>, <<1479,1479>>, <<1524,1524>>, <<1536,1541>>,
       <<1552,1562>>, <<1564,1564>>, <<1600,1600>>, <<1611,1631>>, <<1648,1648>>,
       <<1750,1757>>, <<1759,1768>>, <<1770,1773>>, <<1807,1807>>, <<1809,1809>>,
       <<1840,1866>>, <<1958,1968>>, <<2027,2037>>, <<2042,2042>>, <<2045,2045>>,
       <<2070,2093>>, <<2137,2139>>, <<2184,2184>>, <<2192,2193>>, <<2200,2207>>,
       <<2249,2306>>, <<2362,2362>>, <<2364,2364>>, <<2369,2376>>, <<2381,2381>>,
       <<2385,2391>>, <<2402,2403>>, <<2417,2417>>, <<2433,2433>>, <<2492,2492>>,
       <<2497,2500>>, <<2509,2509>>, <<2530,2531>>, <<2558,2558>>, <<2561,2562>>,
       <<2620,2620>>, <<2625,2626>>, <<2631,2632>>, <<2635,2637>>, <<2641,2641>>,
       <<2672,2673>>, <<2677,2677>>, <<2689,2690>>, <<2748,2748>>, <<2753,2757>>,
       <<2759,2760>>, <<2765,2765>>, <<2786,2787>>, <<2810,2815>>, <<2817,2817>>,
       <<2876,2876>>, <<2879,2879>>, <<2881,2884>>, <<2893,2893>>, <<2901,2902>>,
       <<2914,2915>>, <<2946,2946>>, <<3008,3008>>, <<3021,3021>>, <<3072,3072>>,
       <<3076,3076>>, <<3132,3132>>, <<3134,3136>>, <<3142,3144>>, <<3146,3149>>,
       <<3157,3158>>, <<3170,3171>>, <<3201,3201>>, <<3260,3260>>, <<3263,3263>>,
       <<3270,3270>>, <<3276,3277>>, <<3298,3299>>, <<3328,3329>>, <<3387,3388>>,
       <<3393,3396>>, <<3405,3405>>, <<3426,3427>>, <<3457,3457>>, <<3530,3530>>,
       <<3538,3540>>, <<3542,3542>>, <<3633,3633>>, <<3636,3642>>, <<3654,3662>>,
       <<3761,3761>>, <<3764,3772>>, <<3782,3782>>, <<3784,3789>>, <<3864,3865>>,
       <<3893,3893>>, <<3895,3895>>, <<3897,3897>>, <<3953,3966>>, <<3968,3972>>,
       <<3974,3975>>, <<3981,3991>>, <<3993,4028>>, <<4038,4038>>, <<4141,4144>>,
       <<4146,4151>>, <<4153,4154>>, <<4157,4158>>, <<4184,4185>>, <<4190,4192>>,
       <<4209,4212>>, <<4226,4226>>, <<4229,4230>>, <<4237,4237>>, <<4253,4253>>,
       <<4348,4348>>, <<4957,4959>>, <<5906,5908>>, <<5938,5939>>, <<5970,5971>>,
       <<6002,6003>>, <<6068,6069>>, <<6071,6077>>, <<6086,6086>>, <<6089,6099>>,
       <<6103,6103>>, <<6109,6109>>, <<6155,6159>>, <<6211,6211>>, <<6277,6278>>,
       <<6313,6313>>, <<6432,6434>>, <<6439,6440>>, <<6450,6450>>, <<6457,6459>>,
       <<6679,6680>>, <<6683,6683>>, <<6742,6742>>, <<6744,6750>>, <<6752,6752>>,
       <<6754,6754>>, <<6757,6764>>, <<6771,6780>>, <<6783,6783>>, <<6823,6823>>,
       <<6832,6862>>, <<6912,6915>>, <<6964,6964>>, <<6966,6970>>, <<6972,6972>>,
       <<6978,6978>>, <<7019,7027>>, <<7040,7041>>, <<7074,7077>>, <<7080,7081>>,
       <<7083,7085>>, <<7142,7142>>, <<7144,7145>>, <<7149,7149>>, <<7151,7153>>,
       <<7212,7219>>, <<7222,7223>>, <<7288,7293>>, <<7376,7378>>, <<7380,7392>>,
       <<7394,7400>>, <<7405,7405>>, <<7412,7412>>, <<7416,7417>>, <<7468,7530>>,
       <<7544,7544>>, <<7579,7679>>, <<8125,8125>>, <<8127,8129>>, <<8141,8143>>,
       <<8157,8159>>, <<8173,8175>>, <<8189,8190>>, <<8203,8207>>, <<8216,8217>>,
       <<8228,8228>>, <<8231,8231>>, <<8234,8238>>, <<8288,8292>>, <<8294,8303>>,
       <<8305,8305>>, <<8319,8319>>, <<8336,8348>>, <<8400,8432>>, <<11388,11389>>,
       <<11503,11505>>, <<11631,11631>>, <<11647,11647>>, <<11744,11775>>, <<11823,11823>>,
       <<12293,12293>>, <<12330,12333>>, <<12337,12341>>, <<12347,12347>>, <<12441,12446>>,
       <<12540,12542>>, <<40981,40981>>, <<42232,42237>>, <<42508,42508>>, <<42607,42610>>,
       <<42612,42621>>, <<42623,42623>>, <<42652,42655>>, <<42736,42737>>, <<42752,42785>>,
       <<42864,42864>>, <<42888,42890>>, <<42994,42996>>, <<43000,43001>>, <<43010,43010>>,
       <<43014,43014>>, <<43019,43019>>, <<43045,43046>>, <<43052,43052>>, <<43204,43205>>,
       <<43232,43249>>, <<43263,43263>>, <<43302,43309>>, <<43335,43345>>, <<43392,43394>>,
       <<43443,43443>>, <<43446,43449>>, <<43452,43453>>, <<43471,43471>>, <<43493,43494>>,
       <<43561,43566>>, <<43569,43570>>, <<43573,43574>>, <<43587,43587>>, <<43596,43596>>,
       <<43632,43632>>, <<43644,43644>>, <<43696,43696>>, <<43698,43700>>, <<43703,43704>>,
       <<43710,43711>>, <<43713,43713>>, <<43741,43741>>, <<43756,43757>>, <<43763,43764>>,
       <<43766,43766>>, <<43867,43871>>, <<43881,43883>>, <<44005,44005>>, <<44008,44008>>,
       <<44013,44013>>, <<64286,64286>>, <<64434,64450>>, <<65024,65039>>, <<65043,65043>>,
       <<65056,65071>>, <<65106,65106>>, <<65109,65109>>, <<65279,65279>>, <<65287,65287>>,
       <<65294,65294>>, <<65306,65306>>, <<65342,65342>>, <<65344,65344>>, <<65392,65392>>,
       <<65438,65439>>, <<65507,65507>>, <<65529,65531>>, <<66045,66045>>, <<66272,66272>>,
       <<66422,66426>>, <<67456,67461>>, <<67463,67504>>, <<67506,67514>>, <<68097,68099>>,
       <<68101,68102>>, <<68108,68111>>, <<68152,68154>>, <<68159,68159>>, <<68325,68326>>,
       <<68900,68903>>, <<69291,69292>>, <<69446,69456>>, <<69506,69509>>, <<69633,69633>>,
       <<69688,69702>>, <<69744,69744>>, <<69747,69748>>, <<69759,69761>>, <<69811,69814>>,
       <<69817,69818>>, <<69821,69821>>, <<69826,69826>>, <<69837,69837>>, <<69888,69890>>,
       <<69927,69931>>, <<69933,69940>>, <<70003,70003>>, <<70016,70017>>, <<70070,70078>>,
       <<70089,70092>>, <<70095,70095>>, <<70191,70193>>, <<70196,70196>>, <<70198,70199>>,
       <<70206,70206>>, <<70367,70367>>, <<70371,70378>>, <<70400,70401>>, <<70459,70460>>,
       <<70464,70464>>, <<70502,70508>>, <<70512,70516>>, <<70712,70719>>, <<70722,70724>>,
       <<70726,70726>>, <<70750,70750>>, <<70835,70840>>, <<70842,70842>>, <<70847,70848>>,
       <<70850,70851>>, <<71090,71093>>, <<71100,71101>>, <<71103,71104>>, <<71132,71133>>,
       <<71219,71226>>, <<71229,71229>>, <<71231,71232>>, <<71339,71339>>, <<71341,71341>>,
       <<71344,71349>>, <<71351,71351>>, <<71453,71455>>, <<71458,71461>>, <<71463,71467>>,
       <<71727,71735>>, <<71737,71738>>, <<71995,71996>>, <<71998,71998>>, <<72003,72003>>,
       <<72148,72151>>, <<72154,72155>>, <<72160,72160>>, <<72193,72202>>, <<72243,72248>>,
       <<72251,72254>>, <<72263,72263>>, <<72273,72278>>, <<72281,72283>>, <<72330,72342>>,
       <<72344,72345>>, <<72752,72758>>, <<72760,72765>>, <<72767,72767>>, <<72850,72871>>,
       <<72874,72880>>, <<72882,72883>>, <<72885,72886>>, <<73009,73014>>, <<73018,73018>>,
       <<73020,73021>>, <<73023,73029>>, <<73031,73031>>, <<73104,73105>>, <<73109,73109>>,
       <<73111,73111>>, <<73459,73460>>, <<78896,78904>>, <<92912,92916>>, <<92976,92982>>,
       <<92992,92995>>, <<94031,94031>>, <<94095,94111>>, <<94176,94177>>, <<94179,94180>>,
       <<110576,110579>>, <<110581,110587>>, <<110589,110590>>, <<113821,113822>>, <<113824,113827>>,
       <<118528,118573>>, <<118576,118598>>, <<119143,119145>>, <<119155,119170>>, <<119173,119179>>,
       <<119210,119213>>, <<119362,119364>>, <<121344,121398>>, <<121403,121452>>, <<121461,121461>>,
       <<121476,121476>>, <<121499,121503>>, <<121505,121519>>, <<122880,122886>>, <<122888,122904>>,
       <<122907,122913>>, <<122915,122916>>, <<122918,122922>>, <<123184,123197>>, <<123566,123566>>,
       <<123628,123631>>, <<125136,125142>>, <<125252,125259>>, <<127995,127999>>, <<917505,917505>>,
       <<917536,917631>>, <<917760,917999>> >>

\* The cased code points among those the context rule does not skip.
cased_table ==
    << <<65,90>>, <<97,122>>, <<170,170>>, <<181,181>>, <<186,186>>,
       <<192,214>>, <<216,246>>, <<248,442>>, <<444,447>>, <<452,659>>,
       <<661,687>>, <<880,883>>, <<886,887>>, <<891,893>>, <<895,895>>,
       <<902,902>>, <<904,906>>, <<908,908>>, <<910,929>>, <<931,1013>>,
       <<1015,1153>>, <<1162,1327>>, <<1329,1366>>, <<1376,1416>>, <<4256,4293>>,
       <<4295,4295>>, <<4301,4301>>, <<4304,4346>>, <<4349,4351>>, <<5024,5109>>,
       <<5112,5117>>, <<7296,7304>>, <<7312,7354>>, <<7357,7359>>, <<7424,7467>>,
       <<7531,7543>>, <<7545,7578>>, <<7680,7957>>, <<7960,7965>>, <<7968,8005>>,
       <<8008,8013>>, <<8016,8023>>, <<8025,8025>>, <<8027,8027>>, <<8029,8029>>,
       <<8031,8061>>, <<8064,8116>>, <<8118,8124>>, <<8126,8126>>, <<8130,8132>>,
       <<8134,8140>>, <<8144,8147>>, <<8150,8155>>, <<8160,8172>>, <<8178,8180>>,
       <<8182,8188>>, <<8450,8450>>, <<8455,8455>>, <<8458,8467>>, <<8469,8469>>,
       <<8473,8477>>, <<8484,8484>>, <<8486,8486>>, <<8488,8488>>, <<8490,8493>>,
       <<8495,8500>>, <<8505,8505>>, <<8508,8511>>, <<8517,8521>>, <<8526,8526>>,
       <<8544,8575>>, <<8579,8580>>, <<9398,9449>>, <<11264,11387>>, <<11390,11492>>,
       <<11499,11502>>, <<11506,11507>>, <<11520,11557>>, <<11559,11559>>, <<11565,11565>>,
       <<42560,42605>>, <<42624,42651>>, <<42786,42863>>, <<42865,42887>>, <<42891,42894>>,
       <<42896,42954>>, <<42960,42961>>, <<42963,42963>>, <<42965,42969>>, <<42997,42998>>,
       <<43002,43002>>, <<43824,43866>>, <<43872,43880>>, <<43888,43967>>, <<64256,64262>>,
       <<64275,64279>>, <<65313,65338>>, <<65345,65370>>, <<66560,66639>>, <<66736,66771>>,
       <<66776,66811>>, <<66928,66938>>, <<66940,66954>>, <<66956,66962>>, <<66964,66965>>,
       <<66967,66977>>, <<66979,66993>>, <<66995,67001>>, <<67003,67004>>, <<68736,68786>>,
       <<68800,68850>>, <<71840,71903>>, <<93760,93823>>, <<119808,119892>>, <<119894,119964>>,
       <<119966,119967>>, <<119970,119970>>, <<119973,119974>>, <<119977,119980>>, <<119982,119993>>,
       <<119995,119995>>, <<119997,120003>>, <<120005,120069>>, <<120071,120074>>, <<120077,120084>>,
       <<120086,120092>>, <<120094,120121>>, <<120123,120126>>, <<120128,120132>>, <<120134,120134>>,
       <<120138,120144>>, <<120146,120485>>, <<120488,120512>>, <<120514,120538>>, <<120540,120570>>,
       <<120572,120596>>, <<120598,120628>>, <<120630,120654>>, <<120656,120686>>, <<120688,120712>>,
       <<120714,120744>>, <<120746,120770>>, <<120772,120779>>, <<122624,122633>>, <<122635,122654>>,
       <<125184,125251>>, <<127280,127305>>, <<127312,127337>>, <<127344,127369>> >>

in_pairs(c, table) ==
    \E i \in 1..Len(table) : c >= table[i][1] /\ c <= table[i][2]

\* str.lower() on one character: 'A'..'Z' (65..90) go to 'a'..'z'; capital
\* I with dot above (304) goes to 'i' and a combining dot (105, 775); the
\* other code points by lower_table.
lower_char(c) ==
    IF c < 128 THEN <<IF c >= 65 /\ c <= 90 THEN c + 32 ELSE c>>
    ELSE IF c = 304 THEN <<105, 775>>
    ELSE IF \E i \in 1..Len(lower_table) :
                /\ c >= lower_table[i][1] /\ c <= lower_table[i][2]
                /\ (c - lower_table[i][1]) % lower_table[i][3] = 0
         THEN LET i == CHOOSE i \in 1..Len(lower_table) :
                        /\ c >= lower_table[i][1] /\ c <= lower_table[i][2]
                        /\ (c - lower_table[i][1]) % lower_table[i][3] = 0
              IN  <<c + lower_table[i][4]>>
         ELSE <<c>>

\* The nearest position before i (d = -1) or after i (d = 1) that holds a
\* code point the context rule does not skip; 0 when there is none.
RECURSIVE next_unskipped(_, _, _)
next_unskipped(s, i, d) ==
    IF i + d < 1 \/ i + d > Len(s) THEN 0
    ELSE IF in_pairs(s[i + d], case_ignorable_table) THEN next_unskipped(s, i + d, d)
    ELSE i + d

\* Capital sigma (931) at position i lower-cases to final sigma (962) when
\* a cased character precedes it and none follows it, else to sigma (963).
final_sigma(s, i) ==
    LET before == next_unskipped(s, i, -1)
        after == next_unskipped(s, i, 1)
    IN  IF /\ before # 0 /\ in_pairs(s[before], cased_table)
           /\ (after = 0 \/ ~in_pairs(s[after], cased_table))
        THEN 962 ELSE 963

RECURSIVE lower_from(_, _)
lower_from(s, i) ==
    IF i > Len(s) THEN <<>>
    ELSE (IF s[i] = 931 THEN <<final_sigma(s, i)>> ELSE lower_char(s[i]))
            \o lower_from(s, i + 1)

\* str.lower(): character by character; a str of ASCII characters keeps
\* its length.
lower(s) ==
    IF \A i \in 1..Len(s) : s[i] < 128
    THEN [i \in 1..Len(s) |-> IF s[i] >= 65 /\ s[i] <= 90 THEN s[i] + 32 ELSE s[i]]
    ELSE lower_from(s, 1)

\* str.replace('-', '_'): '-' is 45, '_' is 95.
replace_hyphen(s) == [i \in 1..Len(s) |-> IF s[i] = 45 THEN 95 ELSE s[i]]

\* The characters str.strip() removes: the code points str.isspace() holds
\* for (\t \n \v \f \r, the separators 28..31, space, NEL, no-break space
\* and the Unicode spaces and line separators).
Whitespace ==
    (9..13) \cup (28..32) \cup {133, 160, 5760} \cup (8192..8202)
        \cup {8232, 8233, 8239, 8287, 12288}

RECURSIVE lstrip(_)
lstrip(s) == IF s # <<>> /\ Head(s) \in Whitespace THEN lstrip(Tail(s)) ELSE s

RECURSIVE rstrip(_)
rstrip(s) ==
    IF s # <<>> /\ s[Len(s)] \in Whitespace
    THEN rstrip(SubSeq(s, 1, Len(s) - 1))
    ELSE s

\* str.strip()
strip(s) == rstrip(lstrip(s))

\* s[:n]
Prefix(s, n) == IF Len(s) > n THEN SubSeq(s, 1, n) ELSE s

\* Python's str ordering: by code point, a proper prefix first.
RECURSIVE StrLess(_, _)
StrLess(a, b) ==
    IF b = <<>> THEN FALSE
    ELSE IF a = <<>> THEN TRUE
    ELSE IF Head(a) # Head(b) THEN Head(a) < Head(b)
    ELSE StrLess(Tail(a), Tail(b))

(***************************************************************************)
(* Cell values.  None/NaN: [t |-> "null"].  A Python int is its sign and   *)
(* its decimal digits (any length); a float is a sign, the digits of its   *)
(* integer part and the digits after the point, as repr prints it.         *)
(***************************************************************************)

PyNone == [t |-> "null"]
PyStr(s) == [t |-> "str", s |-> s]
PyInt(neg, digs) == [t |-> "int", neg |-> neg, digs |-> digs]
PyFloat(neg, digs, frac) == [t |-> "float", neg |-> neg, digs |-> digs, frac |-> frac]

\* The decimal digits as characters ('0' is 48).
DigitChars(digs) == [i \in 1..Len(digs) |-> 48 + digs[i]]

\* int(v): truncation toward zero; int(-0.5) is 0, which has no sign.
int_of(v) == PyInt(v.neg /\ v.digs # <<0>>, v.digs)

\* str(v) of an int or a float
str_of(v) ==
    (IF v.neg THEN <<45>> ELSE <<>>) \o DigitChars(v.digs)
        \o (IF v.t = "float" THEN <<46>> \o DigitChars(v.frac) ELSE <<>>)

(***************************************************************************)
(* compute_record_hash                                                     *)
(***************************************************************************)

created_at == <<99,114,101,97,116,101,100,95,97,116>>
updated_at == <<117,112,100,97,116,101,100,95,97,116>>
timestamp == <<116,105,109,101,115,116,97,109,112>>
record_hash == <<114,101,99,111,114,100,95,104,97,115,104>>
registrant_date == <<114,101,103,105,115,116,114,97,110,116,95,100,97,116,101>>

\* The default exclude_columns.
exclude_columns == {created_at, updated_at, timestamp, record_hash, registrant_date}

\* The literal 'null'.
null_token == <<110,117,108,108>>

\* The numeric branch, with the mutation that truncates every number.
normalize_number_always_truncated(v) == Prefix(str_of(int_of(v)), 10)

\* str(int(v))[:10] if len(str(v)) > 10 else str(v)
normalize_number(v) ==
    IF Len(str_of(v)) > 10 THEN Prefix(str_of(int_of(v)), 10) ELSE str_of(v)

\* The string a value is normalised to before hashing.
normalize_value(v) ==
    IF v.t = "null" THEN null_token
    ELSE IF v.t \in {"int", "float"} THEN normalize_number(v)
    ELSE lower(strip(v.s))

\* d[k] = v on a dict, kept as its items in insertion order: a key that is
\* there keeps its place and takes the value, a new key goes to the end.
dict_set(d, k, v) ==
    IF \E i \in 1..Len(d) : d[i][1] = k
    THEN [i \in 1..Len(d) |-> IF d[i][1] = k THEN <<k, v>> ELSE d[i]]
    ELSE Append(d, <<k, v>>)

\* The loop over row.items() from item i on, filtered_row being d so far.
RECURSIVE filtered_from(_, _, _)
filtered_from(row, i, d) ==
    IF i > Len(row) THEN d
    ELSE filtered_from(row, i + 1,
            IF row[i][1] \in exclude_columns THEN d
            ELSE dict_set(d, row[i][1], normalize_value(row[i][2])))

\* filtered_row: the kept columns, each with its normalised value; of a
\* column name that the row repeats, the last value.
filtered_row(row) == filtered_from(row, 1, <<>>)

\* sorted(filtered_row.items()): by column name.
RECURSIVE insert_sorted(_, _)
insert_sorted(kv, items) ==
    IF items = <<>> THEN <<kv>>
    ELSE IF StrLess(kv[1], Head(items)[1]) THEN <<kv>> \o items
    ELSE <<Head(items)>> \o insert_sorted(kv, Tail(items))

RECURSIVE sorted_items(_)
sorted_items(items) ==
    IF items = <<>> THEN <<>>
    ELSE insert_sorted(Head(items), sorted_items(Tail(items)))

\* '|'.join(f"{k}:{v}" for k, v in sorted_items): ':' is 58, '|' is 124.
RECURSIVE join_items(_)
join_items(items) ==
    IF items = <<>> THEN <<>>
    ELSE Head(items)[1] \o <<58>> \o Head(items)[2]
            \o (IF Len(items) > 1 THEN <<124>> ELSE <<>>)
            \o join_items(Tail(items))

row_str(row) == join_items(sorted_items(filtered_row(row)))

\* hashlib.md5(...).hexdigest(), taken to be collision-free: the digest is
\* the hashed string under the tag "md5:".
md5(s) == <<109,100,53,58>> \o s

compute_record_hash(row) == md5(row_str(row))


(***************************************************************************)
(* DataFrame helpers                                                       *)
(***************************************************************************)

\* row[col] = v: an existing column keeps its place, a new one is appended.
set_column(row, col, v) ==
    IF \E i \in 1..Len(row) : row[i][1] = col
    THEN [i \in 1..Len(row) |-> IF row[i][1] = col THEN <<col, v>> ELSE row[i]]
    ELSE Append(row, <<col, v>>)

\* The value of a column of a row that has it.
get_column(row, col) == row[CHOOSE i \in 1..Len(row) : row[i][1] = col][2]

\* row.drop('record_hash')
drop_record_hash(row) == SelectSeq(row, LAMBDA kv : kv[1] # record_hash)

\* The dtype of column i of a frame: object with a str cell, int64 with int
\* cells only, else float64 (an empty cell of a numeric column is NaN).
column_dtype(frame, i) ==
    LET ts == {frame[r][i][2].t : r \in 1..Len(frame)}
    IN  IF "str" \in ts THEN "object"
        ELSE IF ts = {"int"} THEN "int64"
        ELSE "float64"

\* The one dtype the values of a frame are brought to.
frame_dtype(frame) ==
    LET ds == {column_dtype(frame, i) : i \in 1..Len(frame[1])}
    IN  IF "object" \in ds THEN "object"
        ELSE IF ds = {"int64"} THEN "int64"
        ELSE "float64"

\* float(v) of an int below 10^16: repr prints its digits and '.0'.
float_of(v) == IF v.t = "int" THEN PyFloat(v.neg, v.digs, <<0>>) ELSE v

\* Row r as frame.apply(f, axis=1) hands it to f: a Series of the frame's
\* one dtype, so that in a frame of numeric columns that are not all int64
\* every int arrives as a float.
apply_row(frame, r) ==
    IF frame_dtype(frame) = "float64"
    THEN [i \in 1..Len(frame[r]) |-> <<frame[r][i][1], float_of(frame[r][i][2])>>]
    ELSE frame[r]

\* frame['record_hash'] = frame.apply(compute_record_hash, axis=1)
with_record_hash(frame) ==
    [r \in 1..Len(frame) |->
        set_column(frame[r], record_hash,
                   PyStr(compute_record_hash(apply_row(frame, r))))]

\* re.sub(r'[^a-zA-Z0-9_]', '_', name): '_' is 95.
sub_special(name) ==
    [i \in 1..Len(name) |->
        IF \/ name[i] \in 97..122 \/ name[i] \in 65..90
           \/ name[i] \in 48..57 \/ name[i] = 95
        THEN name[i] ELSE 95]

\* sanitize_column_name, on a header that is not empty: 'col_' goes before
\* a leading digit.
sanitize_column_name(name) ==
    LET n == lower(sub_special(name))
    IN  IF n[1] \in 48..57 THEN <<99,111,108,95>> \o n ELSE n

\* df.columns = [sanitize_column_name(col) for col in df.columns]
sanitize_columns(frame) ==
    [r \in 1..Len(frame) |->
        [i \in 1..Len(frame[r]) |->
            <<sanitize_column_name(frame[r][i][1]), frame[r][i][2]>>]]

\* frame['record_hash'] as a sequence, and as the set that isin() tests.
hashes(frame) == [i \in 1..Len(frame) |-> get_column(frame[i], record_hash).s]
hash_set(frame) == {hashes(frame)[i] : i \in 1..Len(frame)}

(***************************************************************************)
(* Table names                                                             *)
(***************************************************************************)

\* The default table_name of perform_cdc and the literal of to_sql.
owl_connect_export ==
    <<111,119,108,95,99,111,110,110,101,99,116,95,101,120,112,111,114,116>>

\* The table of tools/owl-connect-table.py's CREATE TABLE.
owl_hyphen_connect_export ==
    <<111,119,108,45,99,111,110,110,101,99,116,45,101,120,112,111,114,116>>

\* CDCChangeLog.__tablename__, which create_all puts in the listing.
owl_connect_change_log ==
    <<111,119,108,95,99,111,110,110,101,99,116,95,99,104,97,110,103,101,95,
      108,111,103>>

\* The filter of matching_tables, with the mutation that compares the
\* lower-cased names only.
table_matches_case_only(t, name) == lower(t) = lower(name)

\* The filter of matching_tables.
table_matches(t, name) ==
    \/ lower(t) = lower(name)
    \/ replace_hyphen(lower(t)) = replace_hyphen(lower(name))

\* inspector.get_table_names(): the stored names in an order the backend
\* chooses.
Listings(names) ==
    {l \in [1..Cardinality(names) -> names] :
        \A i, j \in 1..Cardinality(names) : l[i] = l[j] => i = j}

(***************************************************************************)
(* The classification of perform_cdc                                       *)
(***************************************************************************)

NoData == <<>>
SomeData(row) == <<row>>

\* CDCChangeLog(change_type='INSERT', ...); changed_at is the run's clock.
InsertRecord(tname, row, at) ==
    [change_type |-> "INSERT", table_name |-> tname,
     record_id |-> get_column(row, record_hash).s,
     old_data |-> NoData, new_data |-> SomeData(drop_record_hash(row)),
     changed_at |-> at]

\* CDCChangeLog(change_type='DELETE', ...)
DeleteRecord(tname, row, at) ==
    [change_type |-> "DELETE", table_name |-> tname,
     record_id |-> get_column(row, record_hash).s,
     old_data |-> SomeData(drop_record_hash(row)), new_data |-> NoData,
     changed_at |-> at]

\* df[~df['record_hash'].isin(existing_df['record_hash'])]
new_records(frame, existing) ==
    SelectSeq(frame, LAMBDA r : get_column(r, record_hash).s \notin hash_set(existing))

\* existing_df[~existing_df['record_hash'].isin(df['record_hash'])]
deleted_records(frame, existing) ==
    SelectSeq(existing, LAMBDA r : get_column(r, record_hash).s \notin hash_set(frame))

\* The mutation of unchanged_records that selects from the prior snapshot.
unchanged_records_of_existing(frame, existing) ==
    SelectSeq(existing, LAMBDA r : get_column(r, record_hash).s \in hash_set(frame))

\* df[df['record_hash'].isin(existing_df['record_hash'])]
unchanged_records(frame, existing) ==
    SelectSeq(frame, LAMBDA r : get_column(r, record_hash).s \in hash_set(existing))

\* The rows the two loops of perform_cdc add to the session: the INSERTs in
\* the order of df, then the DELETEs in the order of existing_df.
change_records(tname, frame, existing, at) ==
    LET ins == new_records(frame, existing)
        del == deleted_records(frame, existing)
    IN  [i \in 1..Len(ins) |-> InsertRecord(tname, ins[i], at)]
        \o [i \in 1..Len(del) |-> DeleteRecord(tname, del[i], at)]

\* The summary of a run that processed nothing.
NoChanges ==
    [inserts |-> 0, updates |-> 0, deletes |-> 0, unchanged |-> 0,
     total_processed |-> 0]


(***************************************************************************)
(* Bounds and input pools                                                  *)
(***************************************************************************)

\* Imports started in one behaviour of Spec.
MaxRuns == 2

\* Stored tables in an initial store of SpecResolve.
MaxTables == 2

\* Column names and cell strings of the datasets.
col_name == <<110,97,109,101>>
col_dept == <<100,101,112,116>>
col_qty == <<113,116,121>>
s_Alice == <<65,108,105,99,101>>
s_alice_padded == <<32,97,108,105,99,101,32>>
s_Bob == <<66,111,98>>
s_Eng == <<69,110,103>>
s_Ops == <<79,112,115>>

s_monday == <<109,111,110,100,97,121>>

\* A row of a DataFrame whose columns are named already.
person(n, d) == <<<<col_name, PyStr(n)>>, <<col_dept, PyStr(d)>>>>

col_price == <<112,114,105,99,101>>
three == PyInt(FALSE, <<3>>)
four == PyInt(FALSE, <<4>>)
five == PyInt(FALSE, <<5>>)
two_point_five == PyFloat(FALSE, <<2>>, <<5>>)

\* The headers of the sheets: 'Name', 'Dept', 'Created At', 'Qty', 'Price'.
h_Name == <<78,97,109,101>>
h_Dept == <<68,101,112,116>>
h_Created_At == <<67,114,101,97,116,101,100,32,65,116>>
h_Qty == <<81,116,121>>
h_Price == <<80,114,105,99,101>>

\* A row of a sheet as read_excel returns it.
sheet_person(n, d) == <<<<h_Name, PyStr(n)>>, <<h_Dept, PyStr(d)>>>>

\* The sheets an import reads: without data rows, one and two rows, an edit
\* of one field, a change of case and padding only, two rows of one digest,
\* and one with a 'Created At' column.
Datasets ==
    { <<>>,
      <<sheet_person(s_Alice, s_Eng)>>,
      <<sheet_person(s_alice_padded, s_Eng)>>,
      <<sheet_person(s_Alice, s_Ops)>>,
      <<sheet_person(s_Alice, s_Eng), sheet_person(s_Bob, s_Eng)>>,
      <<sheet_person(s_Alice, s_Ops), sheet_person(s_Bob, s_Eng)>>,
      <<sheet_person(s_Alice, s_Eng), sheet_person(s_alice_padded, s_Eng)>>,
      <<sheet_person(s_Alice, s_Eng) \o <<<<h_Created_At, PyStr(s_monday)>>>> >> }

\* A row of a sheet of numeric columns only: an integer quantity, a price.
sheet_priced(q) == <<<<h_Qty, q>>, <<h_Price, two_point_five>>>>

\* Sheets of numeric columns only: one row, two rows, an edit of the
\* quantity of the second.
NumericDatasets ==
    { <<sheet_priced(five)>>,
      <<sheet_priced(five), sheet_priced(three)>>,
      <<sheet_priced(five), sheet_priced(four)>> }

\* The column names of a frame; the sheet without data rows has the headers
\* 'Name' and 'Dept' of the others.
frame_columns(frame) ==
    IF frame = <<>> THEN <<col_name, col_dept>>
    ELSE [i \in 1..Len(frame[1]) |-> frame[1][i][1]]

\* Stored names of the stores Spec starts from.
StoredNames == {owl_connect_export, owl_hyphen_connect_export}

Procs == {1, 2}

(***************************************************************************)
(* State                                                                   *)
(***************************************************************************)

VARIABLES
    tables,            \* the store: stored table name -> rows
    columns,           \* the store: stored table name -> column names
    change_log,        \* the committed rows of owl_connect_change_log
    nruns,             \* calls started so far; the clock of changed_at
    pc,                \* per call: the step it is at
    caller,            \* per call: "import" (import_excel_to_mysql) or "cdc"
    table_name,        \* per call: perform_cdc's table_name
    df,                \* per call: the incoming DataFrame
    all_tables,        \* per call: inspector.get_table_names()
    matching_tables,   \* per call: ensure_table_exists' matching_tables
    exact_table_name,  \* per call: the resolved stored name
    existing_df,       \* per call: the prior snapshot read
    session,           \* per call: the session's pending CDCChangeLog rows
    changes,           \* per call: the summary perform_cdc returns
    error,             \* per call: the exception raised, or "none"
    run_id,            \* per call: the value of the clock when it started
    tables_at_call     \* per call: the store when it started

vars ==
    <<tables, columns, change_log, nruns, pc, caller, table_name, df, all_tables,
      matching_tables, exact_table_name, existing_df, session, changes,
      error, run_id, tables_at_call>>

locals ==
    <<caller, table_name, df, all_tables, matching_tables, exact_table_name,
      existing_df, session, changes, error, run_id, tables_at_call>>

\* Every call at rest, nothing read or computed yet.
Idle ==
    /\ change_log = <<>>
    /\ nruns = 0
    /\ pc = [p \in Procs |-> "idle"]
    /\ caller = [p \in Procs |-> "import"]
    /\ table_name = [p \in Procs |-> owl_connect_export]
    /\ df = [p \in Procs |-> <<>>]
    /\ all_tables = [p \in Procs |-> <<>>]
    /\ matching_tables = [p \in Procs |-> <<>>]
    /\ exact_table_name = [p \in Procs |-> <<>>]
    /\ existing_df = [p \in Procs |-> <<>>]
    /\ session = [p \in Procs |-> <<>>]
    /\ changes = [p \in Procs |-> NoChanges]
    /\ error = [p \in Procs |-> "none"]
    /\ run_id = [p \in Procs |-> 0]
    /\ tables_at_call = [p \in Procs |-> <<>>]

\* A store of empty tables (as CREATE TABLE leaves them) and an empty log.
Init ==
    /\ \E names \in SUBSET StoredNames : tables = [t \in names |-> <<>>]
    /\ columns = [t \in DOMAIN tables |-> frame_columns(tables[t])]
    /\ Idle


(***************************************************************************)
(* Operations                                                              *)
(***************************************************************************)

\* import_excel_to_mysql reads the sheet, renames its columns and calls
\* perform_cdc with its default table name; perform_cdc opens a session and
\* returns the empty summary at once for an empty DataFrame.
Call(p, d) ==
    /\ pc[p] \in {"idle", "done", "failed"}
    /\ nruns < MaxRuns
    /\ nruns' = nruns + 1
    /\ run_id' = [run_id EXCEPT ![p] = nruns + 1]
    /\ tables_at_call' = [tables_at_call EXCEPT ![p] = tables]
    /\ caller' = [caller EXCEPT ![p] = "import"]
    /\ table_name' = [table_name EXCEPT ![p] = owl_connect_export]
    /\ df' = [df EXCEPT ![p] = sanitize_columns(d)]
    /\ all_tables' = [all_tables EXCEPT ![p] = <<>>]
    /\ matching_tables' = [matching_tables EXCEPT ![p] = <<>>]
    /\ exact_table_name' = [exact_table_name EXCEPT ![p] = <<>>]
    /\ existing_df' = [existing_df EXCEPT ![p] = <<>>]
    /\ session' = [session EXCEPT ![p] = <<>>]
    /\ changes' = [changes EXCEPT ![p] = NoChanges]
    /\ error' = [error EXCEPT ![p] = "none"]
    /\ pc' = [pc EXCEPT ![p] = IF d = <<>> THEN "replace" ELSE "resolve"]
    /\ UNCHANGED <<tables, columns, change_log>>

\* read_excel raises (no such file or sheet), or create_all does: the call
\* ends before perform_cdc's try block, with nothing read or written.
ReadExcelFails(p) ==
    /\ pc[p] \in {"idle", "done", "failed"}
    /\ nruns < MaxRuns
    /\ nruns' = nruns + 1
    /\ run_id' = [run_id EXCEPT ![p] = nruns + 1]
    /\ tables_at_call' = [tables_at_call EXCEPT ![p] = tables]
    /\ caller' = [caller EXCEPT ![p] = "import"]
    /\ table_name' = [table_name EXCEPT ![p] = owl_connect_export]
    /\ df' = [df EXCEPT ![p] = <<>>]
    /\ all_tables' = [all_tables EXCEPT ![p] = <<>>]
    /\ matching_tables' = [matching_tables EXCEPT ![p] = <<>>]
    /\ exact_table_name' = [exact_table_name EXCEPT ![p] = <<>>]
    /\ existing_df' = [existing_df EXCEPT ![p] = <<>>]
    /\ session' = [session EXCEPT ![p] = <<>>]
    /\ changes' = [changes EXCEPT ![p] = NoChanges]
    /\ error' = [error EXCEPT ![p] = "read_excel"]
    /\ pc' = [pc EXCEPT ![p] = "failed"]
    /\ UNCHANGED <<tables, columns, change_log>>

\* ensure_table_exists: list the tables, keep the matching ones, take the
\* first.  matching_tables[0] is read before the emptiness test, so no match
\* raises IndexError, which perform_cdc's handler rolls back and re-raises.
ResolveTable(p) ==
    /\ pc[p] = "resolve"
    /\ \E l \in Listings(DOMAIN tables \cup {owl_connect_change_log}) :
        LET m == SelectSeq(l, LAMBDA t : table_matches(t, table_name[p]))
        IN  /\ all_tables' = [all_tables EXCEPT ![p] = l]
            /\ matching_tables' = [matching_tables EXCEPT ![p] = m]
            /\ IF m = <<>>
               THEN /\ error' = [error EXCEPT ![p] = "IndexError"]
                    /\ pc' = [pc EXCEPT ![p] = "failed"]
                    /\ UNCHANGED exact_table_name
               ELSE /\ exact_table_name' = [exact_table_name EXCEPT ![p] = m[1]]
                    /\ pc' = [pc EXCEPT ![p] = "read"]
                    /\ UNCHANGED error
    /\ UNCHANGED <<tables, columns, change_log, nruns, caller, table_name, df,
                   existing_df, session, changes, run_id, tables_at_call>>

\* existing_df = pd.read_sql_table(exact_table_name, engine); a table that
\* is gone by now makes the read raise.
ReadExisting(p) ==
    /\ pc[p] = "read"
    /\ IF exact_table_name[p] \in DOMAIN tables
       THEN /\ existing_df' = [existing_df EXCEPT ![p] = tables[exact_table_name[p]]]
            /\ pc' = [pc EXCEPT ![p] = "classify"]
            /\ UNCHANGED error
       ELSE /\ error' = [error EXCEPT ![p] = "Exception"]
            /\ pc' = [pc EXCEPT ![p] = "failed"]
            /\ UNCHANGED existing_df
    /\ UNCHANGED <<tables, columns, change_log, nruns, caller, table_name, df,
                   all_tables, matching_tables, exact_table_name, session,
                   changes, run_id, tables_at_call>>

\* Hash both frames, add one INSERT per new row and one DELETE per deleted
\* row to the session, count the unchanged rows.
Classify(p) ==
    /\ pc[p] = "classify"
    /\ LET new == with_record_hash(df[p])
           old == with_record_hash(existing_df[p])
           ins == new_records(new, old)
           del == deleted_records(new, old)
       IN  /\ df' = [df EXCEPT ![p] = new]
           /\ existing_df' = [existing_df EXCEPT ![p] = old]
           /\ session' = [session EXCEPT ![p] =
                  session[p] \o change_records(exact_table_name[p], new, old, run_id[p])]
           /\ changes' = [changes EXCEPT ![p] =
                  [inserts |-> Len(ins), updates |-> 0, deletes |-> Len(del),
                   unchanged |-> Len(unchanged_records(new, old)),
                   total_processed |-> Len(new)]]
    /\ pc' = [pc EXCEPT ![p] = "commit"]
    /\ UNCHANGED <<tables, columns, change_log, nruns, caller, table_name, all_tables,
                   matching_tables, exact_table_name, error, run_id,
                   tables_at_call>>

\* The mutation of Commit that returns with the session still pending.
CommitDeferred(p) ==
    /\ pc[p] = "commit"
    /\ pc' = [pc EXCEPT ![p] = IF caller[p] = "import" THEN "replace" ELSE "done"]
    /\ UNCHANGED <<tables, columns, change_log, nruns, locals>>

\* session.commit(): the pending rows reach the change log together; then
\* perform_cdc returns the summary.
Commit(p) ==
    /\ pc[p] = "commit"
    /\ change_log' = change_log \o session[p]
    /\ session' = [session EXCEPT ![p] = <<>>]
    /\ pc' = [pc EXCEPT ![p] = IF caller[p] = "import" THEN "replace" ELSE "done"]
    /\ UNCHANGED <<tables, columns, nruns, caller, table_name, df, all_tables,
                   matching_tables, exact_table_name, existing_df, changes,
                   error, run_id, tables_at_call>>

\* The mutation of Raise that flushes the session before raising.
RaiseAfterFlush(p) ==
    /\ pc[p] \in {"resolve", "read", "classify", "commit"}
    /\ change_log' = change_log \o session[p]
    /\ session' = [session EXCEPT ![p] = <<>>]
    /\ error' = [error EXCEPT ![p] = "Exception"]
    /\ pc' = [pc EXCEPT ![p] = "failed"]
    /\ UNCHANGED <<tables, columns, nruns, caller, table_name, df, all_tables,
                   matching_tables, exact_table_name, existing_df, changes,
                   run_id, tables_at_call>>

\* A step inside perform_cdc's try block raises (the listing, the read, the
\* hashing, the commit): session.rollback(), and the exception is re-raised
\* through import_excel_to_mysql, which does not reach to_sql.
Raise(p) ==
    /\ pc[p] \in {"resolve", "read", "classify", "commit"}
    /\ session' = [session EXCEPT ![p] = <<>>]
    /\ error' = [error EXCEPT ![p] = "Exception"]
    /\ pc' = [pc EXCEPT ![p] = "failed"]
    /\ UNCHANGED <<tables, columns, change_log, nruns, caller, table_name, df,
                   all_tables, matching_tables, exact_table_name, existing_df,
                   changes, run_id, tables_at_call>>

\* The store T with stored name t holding rows.
put(T, t, rows) ==
    [u \in DOMAIN T \cup {t} |-> IF u = t THEN rows ELSE T[u]]

\* The store T without the stored name t.
without(T, t) == [u \in DOMAIN T \ {t} |-> T[u]]

\* A row as the table of column names cols stores it: the table's columns,
\* NULL in those the row does not have.
as_stored(row, cols) ==
    [i \in 1..Len(cols) |->
        <<cols[i], IF \E j \in 1..Len(row) : row[j][1] = cols[i]
                   THEN get_column(row, cols[i]) ELSE PyNone>>]

\* Every column of the frame is a column of the table.
fits(frame, cols) ==
    \A i \in 1..Len(frame_columns(frame)) :
        \E j \in 1..Len(cols) : cols[j] = frame_columns(frame)[i]

\* df.to_sql('owl_connect_export', engine, if_exists='replace'), first
\* statement: the table, when there is one, is dropped.
DropTable(p) ==
    /\ pc[p] = "replace"
    /\ tables' = without(tables, owl_connect_export)
    /\ columns' = without(columns, owl_connect_export)
    /\ pc' = [pc EXCEPT ![p] = "create"]
    /\ UNCHANGED <<change_log, nruns, locals>>

\* to_sql, second statement: CREATE TABLE with the columns of the frame
\* (record_hash among them once perform_cdc has added it); it raises when
\* the table is there again.
CreateTable(p) ==
    /\ pc[p] = "create"
    /\ IF owl_connect_export \in DOMAIN tables
       THEN /\ error' = [error EXCEPT ![p] = "to_sql"]
            /\ pc' = [pc EXCEPT ![p] = "failed"]
            /\ UNCHANGED <<tables, columns>>
       ELSE /\ tables' = put(tables, owl_connect_export, <<>>)
            /\ columns' = put(columns, owl_connect_export, frame_columns(df[p]))
            /\ pc' = [pc EXCEPT ![p] = "insert"]
            /\ UNCHANGED error
    /\ UNCHANGED <<change_log, nruns, caller, table_name, df, all_tables,
                   matching_tables, exact_table_name, existing_df, session,
                   changes, run_id, tables_at_call>>

\* to_sql, last statement: the rows are inserted into the table that is
\* there now (nothing is sent for a frame without rows); it raises when the
\* table is gone or lacks a column of the frame.
InsertRows(p) ==
    /\ pc[p] = "insert"
    /\ IF df[p] = <<>>
       THEN /\ pc' = [pc EXCEPT ![p] = "done"]
            /\ UNCHANGED <<tables, error>>
       ELSE IF /\ owl_connect_export \in DOMAIN tables
               /\ fits(df[p], columns[owl_connect_export])
       THEN /\ tables' = put(tables, owl_connect_export,
                    tables[owl_connect_export]
                        \o [r \in 1..Len(df[p]) |->
                              as_stored(df[p][r], columns[owl_connect_export])])
            /\ pc' = [pc EXCEPT ![p] = "done"]
            /\ UNCHANGED error
       ELSE /\ error' = [error EXCEPT ![p] = "to_sql"]
            /\ pc' = [pc EXCEPT ![p] = "failed"]
            /\ UNCHANGED tables
    /\ UNCHANGED <<columns, change_log, nruns, caller, table_name, df,
                   all_tables, matching_tables, exact_table_name, existing_df,
                   session, changes, run_id, tables_at_call>>

\* A statement of to_sql raises (MySQL commits each DDL statement on its
\* own): the store stays as the statements before it left it.
ReplaceFails(p) ==
    /\ pc[p] \in {"replace", "create", "insert"}
    /\ error' = [error EXCEPT ![p] = "to_sql"]
    /\ pc' = [pc EXCEPT ![p] = "failed"]
    /\ UNCHANGED <<tables, columns, change_log, nruns, caller, table_name, df,
                   all_tables, matching_tables, exact_table_name, existing_df,
                   session, changes, run_id, tables_at_call>>

\* The steps of perform_cdc.
Cdc(p) ==
    \/ ResolveTable(p)
    \/ ReadExisting(p)
    \/ Classify(p)
    \/ Commit(p)
    \/ Raise(p)

\* The steps of import_excel_to_mysql on a sheet of pool D.
Import(p, D) ==
    \/ \E d \in D : Call(p, d)
    \/ ReadExcelFails(p)
    \/ Cdc(p)
    \/ DropTable(p)
    \/ CreateTable(p)
    \/ InsertRows(p)
    \/ ReplaceFails(p)

\* One import at a time.
Next == Import(1, Datasets)

Spec == Init /\ [][Next]_vars

\* The sheets of two imports that overlap: without data rows, one row, an
\* edit of it, and one with a 'Created At' column.
OverlapDatasets ==
    { <<>>,
      <<sheet_person(s_Alice, s_Eng)>>,
      <<sheet_person(s_Alice, s_Ops)>>,
      <<sheet_person(s_Alice, s_Eng) \o <<<<h_Created_At, PyStr(s_monday)>>>> >> }

\* Two imports that may overlap: nothing in the code orders their steps.
NextConc == \E p \in Procs : Import(p, OverlapDatasets)

SpecConc == Init /\ [][NextConc]_vars

\* One import at a time, of sheets of numeric columns only.
NextNumeric == Import(1, NumericDatasets)

SpecNumeric == Init /\ [][NextNumeric]_vars


(***************************************************************************)
(* Properties of an import                                                 *)
(***************************************************************************)

\* The change-log rows a call committed.
RunRecords(p) == SelectSeq(change_log, LAMBDA r : r.changed_at = run_id[p])

\* The change-log rows of a call, pending or committed.
Produced(p) == IF pc[p] = "commit" THEN session[p] ELSE RunRecords(p)

OfType(recs, type) == SelectSeq(recs, LAMBDA r : r.change_type = type)

\* The call has classified its rows and has not failed since.
Classified(p) ==
    pc[p] \in {"commit", "replace", "create", "insert", "done"} /\ df[p] # <<>>

\* The stored names that match the call's table_name in the store it met.
MatchesAtCall(p) ==
    {t \in DOMAIN tables_at_call[p] : table_matches(t, table_name[p])}

\* C1: on a first-time import (no stored name matches, N > 0 incoming rows)
\* the call raises nothing, and once done it has returned inserts = N,
\* deletes = 0, unchanged = 0, total_processed = N and committed one INSERT
\* row (new_data set, old_data absent) per incoming row.
C1_FirstImportCompletes ==
    \A p \in Procs :
        (df[p] # <<>> /\ all_tables[p] # <<>> /\ matching_tables[p] = <<>>)
        => /\ error[p] = "none"
           /\ pc[p] = "done" =>
                /\ changes[p] = [inserts |-> Len(df[p]), updates |-> 0,
                                 deletes |-> 0, unchanged |-> 0,
                                 total_processed |-> Len(df[p])]
                /\ Len(RunRecords(p)) = Len(df[p])
                /\ \A i \in 1..Len(RunRecords(p)) :
                      /\ RunRecords(p)[i].change_type = "INSERT"
                      /\ RunRecords(p)[i].new_data # NoData
                      /\ RunRecords(p)[i].old_data = NoData

\* C2: an empty incoming dataset against the one matching table, holding M
\* rows, returns inserts = 0, deletes = M, unchanged = 0 and commits one
\* DELETE row (old_data set) per prior row.
C2_FullRemoval ==
    \A p \in Procs :
        (pc[p] = "done" /\ df[p] = <<>> /\ Cardinality(MatchesAtCall(p)) = 1)
        => LET t == CHOOSE t \in MatchesAtCall(p) : TRUE
               M == Len(tables_at_call[p][t])
           IN  /\ changes[p].inserts = 0
               /\ changes[p].deletes = M
               /\ changes[p].unchanged = 0
               /\ Len(OfType(RunRecords(p), "DELETE")) = M
               /\ \A i \in 1..Len(RunRecords(p)) :
                      RunRecords(p)[i].old_data # NoData

\* Rows a and b have the same columns and differ in the value of exactly
\* one, which is not an excluded column.
OneFieldEdited(a, b) ==
    /\ Len(a) = Len(b)
    /\ \A k \in 1..Len(a) : a[k][1] = b[k][1]
    /\ \E k \in 1..Len(a) :
        /\ a[k][2] # b[k][2]
        /\ a[k][1] \notin exclude_columns
        /\ \A j \in 1..Len(a) : j # k => a[j][2] = b[j][2]

\* new is old (N rows of distinct digests) with one field of one row edited
\* to a value whose digest old does not hold.
EditOfOne(old, new) ==
    /\ Len(old) = Len(new)
    /\ Cardinality(hash_set(old)) = Len(old)
    /\ \E i \in 1..Len(old) :
        /\ OneFieldEdited(drop_record_hash(old[i]), drop_record_hash(new[i]))
        /\ hashes(new)[i] \notin hash_set(old)
        /\ \A j \in 1..Len(old) :
              j # i => drop_record_hash(old[j]) = drop_record_hash(new[j])

\* C3: when the incoming rows are the prior snapshot's N rows with one field
\* of one row edited, the call returns inserts = 1, deletes = 1,
\* unchanged = N - 1, updates = 0, and its change-log rows are one INSERT
\* and one DELETE and no UPDATE.
C3_EditSurfacesAsPair ==
    \A p \in Procs :
        (Classified(p) /\ EditOfOne(existing_df[p], df[p]))
        => /\ changes[p] = [inserts |-> 1, updates |-> 0, deletes |-> 1,
                            unchanged |-> Len(df[p]) - 1,
                            total_processed |-> Len(df[p])]
           /\ Len(Produced(p)) = 2
           /\ Len(OfType(Produced(p), "INSERT")) = 1
           /\ Len(OfType(Produced(p), "DELETE")) = 1
           /\ OfType(Produced(p), "UPDATE") = <<>>

\* The store the call met holds, as owl_connect_export, the rows of the
\* call's own dataset: an import of the same rows completed just before.
SameAsPersisted(p) ==
    /\ owl_connect_export \in DOMAIN tables_at_call[p]
    /\ LET prior == tables_at_call[p][owl_connect_export]
       IN  /\ Len(prior) = Len(df[p])
           /\ \A i \in 1..Len(prior) :
                 drop_record_hash(prior[i]) = drop_record_hash(df[p][i])

\* C4: a second import of the N rows the previous import persisted returns
\* inserts = 0, deletes = 0, unchanged = N and commits nothing.
C4_NoOpReRun ==
    \A p \in Procs :
        (pc[p] = "done" /\ run_id[p] > 1 /\ SameAsPersisted(p))
        => /\ changes[p].inserts = 0
           /\ changes[p].deletes = 0
           /\ changes[p].unchanged = Len(df[p])
           /\ RunRecords(p) = <<>>

\* C5: a call that raised inside perform_cdc (table resolution, read,
\* hashing and diff, commit) has left none of its rows in the change log,
\* holds none pending, and the store is the one it met.
C5_FailureLeavesNoTrace ==
    (pc[1] = "failed" /\ error[1] \in {"IndexError", "Exception"})
    => /\ RunRecords(1) = <<>>
       /\ session[1] = <<>>
       /\ tables = tables_at_call[1]

\* A commit of pending rows raised, against a store that holds rows.
C5_Witness ==
    /\ pc[1] = "failed"
    /\ error[1] = "Exception"
    /\ changes[1].inserts + changes[1].deletes > 0
    /\ \E t \in DOMAIN tables : tables[t] # <<>>

\* C6: a call that is about to replace the snapshot, or has replaced it,
\* holds no pending change-log row: every row it produced is committed.
C6_LogBeforeSnapshot ==
    \A p \in Procs :
        (caller[p] = "import" /\ pc[p] \in {"replace", "create", "insert", "done"})
        => /\ session[p] = <<>>
           /\ Len(RunRecords(p)) = changes[p].inserts + changes[p].deletes

\* An import replaced the snapshot after committing rows of both kinds.
C6_Witness ==
    /\ pc[1] = "done"
    /\ OfType(RunRecords(1), "INSERT") # <<>>
    /\ OfType(RunRecords(1), "DELETE") # <<>>
    /\ tables[owl_connect_export] = df[1]


(***************************************************************************)
(* Overlapping imports                                                     *)
(***************************************************************************)

\* The change-log rows call p can commit when it runs alone against store T:
\* none for an empty dataset, else the diff against a matching table.
SerialRecords(T, p) ==
    IF df[p] = <<>> THEN {<<>>}
    ELSE {change_records(t, with_record_hash(df[p]), with_record_hash(T[t]), run_id[p]) :
            t \in {u \in DOMAIN T : table_matches(u, table_name[p])}}

\* The outcome is that of running call a to its end and then call b, from
\* the store the first call met.
SerialOrder(a, b) ==
    LET T0 == tables_at_call[CHOOSE p \in Procs : run_id[p] = 1]
        T1 == put(T0, owl_connect_export, df[a])
    IN  /\ RunRecords(a) \in SerialRecords(T0, a)
        /\ RunRecords(b) \in SerialRecords(T1, b)
        /\ tables = put(T1, owl_connect_export, df[b])

\* C7: two imports of the same table that both completed have left the
\* change log and the snapshot of one of the two serial executions: neither
\* read the prior snapshot between the other's read and its replace.
C7_RunsSerialized ==
    (pc[1] = "done" /\ pc[2] = "done")
    => SerialOrder(1, 2) \/ SerialOrder(2, 1)


(***************************************************************************)
(* Table resolution: perform_cdc called with a table_name, against stores  *)
(* of tables under several spellings                                       *)
(***************************************************************************)

OWL_HYPHEN_CONNECT_EXPORT ==
    <<79,87,76,45,67,79,78,78,69,67,84,45,69,88,80,79,82,84>>
Owl_Mixed_Connect_Export ==
    <<79,119,108,45,67,111,110,110,101,99,116,95,69,120,112,111,114,116>>
owl_connect_exports ==
    <<111,119,108,95,99,111,110,110,101,99,116,95,101,120,112,111,114,116,115>>
owlconnectexport ==
    <<111,119,108,99,111,110,110,101,99,116,101,120,112,111,114,116>>

\* Stored names: four that agree up to case and '-'/'_', two that do not.
ResolveNames ==
    {owl_connect_export, owl_hyphen_connect_export, OWL_HYPHEN_CONNECT_EXPORT,
     Owl_Mixed_Connect_Export, owl_connect_exports, owlconnectexport}

\* The table_name arguments.
QueryNames ==
    {owl_connect_export, OWL_HYPHEN_CONNECT_EXPORT, owl_hyphen_connect_export,
     owlconnectexport}

\* perform_cdc(df, engine, q) has been called with a one-row DataFrame; each
\* stored table holds one row that carries the table's own name.
InitResolve ==
    /\ \E names \in SUBSET ResolveNames :
        /\ Cardinality(names) <= MaxTables
        /\ tables = [t \in names |-> <<person(t, s_Eng)>>]
    /\ columns = [t \in DOMAIN tables |-> frame_columns(tables[t])]
    /\ change_log = <<>>
    /\ nruns = 1
    /\ pc = [p \in Procs |-> IF p = 1 THEN "resolve" ELSE "idle"]
    /\ caller = [p \in Procs |-> "cdc"]
    /\ \E q \in QueryNames : table_name = [p \in Procs |-> q]
    /\ df = [p \in Procs |-> IF p = 1 THEN <<person(s_Alice, s_Eng)>> ELSE <<>>]
    /\ all_tables = [p \in Procs |-> <<>>]
    /\ matching_tables = [p \in Procs |-> <<>>]
    /\ exact_table_name = [p \in Procs |-> <<>>]
    /\ existing_df = [p \in Procs |-> <<>>]
    /\ session = [p \in Procs |-> <<>>]
    /\ changes = [p \in Procs |-> NoChanges]
    /\ error = [p \in Procs |-> "none"]
    /\ run_id = [p \in Procs |-> IF p = 1 THEN 1 ELSE 0]
    /\ tables_at_call = [p \in Procs |-> tables]

\* One direct call of perform_cdc.
NextCdc == Cdc(1)

SpecResolve == InitResolve /\ [][NextCdc]_vars

Range(seq) == {seq[i] : i \in 1..Len(seq)}

\* The least of a set of names in the str ordering.
LexMin(S) == CHOOSE t \in S : \A u \in S : u = t \/ StrLess(t, u)

\* C8: when several stored names match, the resolved table is the
\* lexicographically smallest of them, whatever the order of the listing.
C8_LexicographicTieBreak ==
    \A p \in Procs :
        matching_tables[p] # <<>>
        => exact_table_name[p] = LexMin(Range(matching_tables[p]))

\* Lower-cased, with '-' replaced by '_'.
Canonical(name) == replace_hyphen(lower(name))

\* C9: a listed table is among the matches exactly when its name and the
\* queried name are equal once lower-cased with '-' replaced by '_';
\* "owl-connect-export" is matched by the queries "owl_connect_export" and
\* "OWL-CONNECT-EXPORT", and when it is the match the prior snapshot read
\* is that table's rows.
C9_CaseSeparatorMatching ==
    \A p \in Procs :
        all_tables[p] # <<>>
        => /\ \A t \in Range(all_tables[p]) :
                t \in Range(matching_tables[p])
                <=> Canonical(t) = Canonical(table_name[p])
           /\ ( /\ owl_hyphen_connect_export \in Range(all_tables[p])
                /\ table_name[p] \in {owl_connect_export, OWL_HYPHEN_CONNECT_EXPORT} )
              => owl_hyphen_connect_export \in Range(matching_tables[p])
           /\ ( /\ pc[p] = "classify"
                /\ matching_tables[p] = <<owl_hyphen_connect_export>> )
              => /\ exact_table_name[p] = owl_hyphen_connect_export
                 /\ existing_df[p] = tables[owl_hyphen_connect_export]

\* The query "OWL-CONNECT-EXPORT" found "owl-connect-export", listed with a
\* table that does not match, and read its row.
C9_Witness ==
    /\ pc[1] = "classify"
    /\ table_name[1] = OWL_HYPHEN_CONNECT_EXPORT
    /\ matching_tables[1] = <<owl_hyphen_connect_export>>
    /\ Len(all_tables[1]) = 3
    /\ existing_df[1] = <<person(owl_hyphen_connect_export, s_Eng)>>


(***************************************************************************)
(* Numeric cells: perform_cdc diffs a one-row DataFrame against a one-row  *)
(* snapshot that differs from it in the numeric column only                *)
(***************************************************************************)

five_point_zero == PyFloat(FALSE, <<5>>, <<0>>)
three_point_seven == PyFloat(FALSE, <<3>>, <<7>>)
three_long_fraction == PyFloat(FALSE, <<3>>, <<1,2,3,4,5,6,7,8,9>>)
ten_digits == PyInt(FALSE, <<1,2,3,4,5,6,7,8,9,0>>)
eleven_digits == PyInt(FALSE, <<1,2,3,4,5,6,7,8,9,0,1>>)
ten_digits_and_half == PyFloat(FALSE, <<1,2,3,4,5,6,7,8,9,0>>, <<5>>)
minus_ten_digits == PyInt(TRUE, <<1,2,3,4,5,6,7,8,9,0>>)
minus_small_fraction == PyFloat(TRUE, <<0>>, <<1,2,3,4,5,6,7,8,9>>)
zero == PyInt(FALSE, <<0>>)

\* ints and floats whose str is at most, and more than, 10 characters long
Numbers ==
    {five, five_point_zero, three, three_point_seven, three_long_fraction,
     ten_digits, eleven_digits, ten_digits_and_half, minus_ten_digits,
     minus_small_fraction, zero}

col_count == <<99,111,117,110,116>>
two == PyInt(FALSE, <<2>>)

\* A row with a text column, and rows of numeric columns only: beside a
\* float column, and beside an int column.
measured(v) == <<<<col_name, PyStr(s_Alice)>>, <<col_qty, v>>>>
priced(v) == <<<<col_qty, v>>, <<col_price, two_point_five>>>>
counted(v) == <<<<col_qty, v>>, <<col_count, two>>>>

shaped(k, v) ==
    CASE k = "measured" -> measured(v)
      [] k = "priced" -> priced(v)
      [] k = "counted" -> counted(v)

\* perform_cdc has been called with the row of quantity b, against the
\* snapshot an earlier import persisted for the row of quantity a, both
\* rows of one shape.
InitHash ==
    /\ \E k \in {"measured", "priced", "counted"} :
        /\ \E a \in Numbers :
            tables = [t \in {owl_connect_export} |->
                        with_record_hash(<<shaped(k, a)>>)]
        /\ \E b \in Numbers :
            df = [p \in Procs |-> IF p = 1 THEN <<shaped(k, b)>> ELSE <<>>]
    /\ columns = [t \in DOMAIN tables |-> frame_columns(tables[t])]
    /\ change_log = <<>>
    /\ nruns = 1
    /\ pc = [p \in Procs |-> IF p = 1 THEN "resolve" ELSE "idle"]
    /\ caller = [p \in Procs |-> "cdc"]
    /\ table_name = [p \in Procs |-> owl_connect_export]
    /\ all_tables = [p \in Procs |-> <<>>]
    /\ matching_tables = [p \in Procs |-> <<>>]
    /\ exact_table_name = [p \in Procs |-> <<>>]
    /\ existing_df = [p \in Procs |-> <<>>]
    /\ session = [p \in Procs |-> <<>>]
    /\ changes = [p \in Procs |-> NoChanges]
    /\ error = [p \in Procs |-> "none"]
    /\ run_id = [p \in Procs |-> IF p = 1 THEN 1 ELSE 0]
    /\ tables_at_call = [p \in Procs |-> tables]

SpecHash == InitHash /\ [][NextCdc]_vars

\* The quantity of the one row of a frame.
Quantity(frame) == get_column(frame[1], col_qty)

\* The decimal string of the integer truncation, cut to 10 characters.
TruncatedDecimal(v) == Prefix(str_of(int_of(v)), 10)

\* The call has hashed and diffed the two one-row frames.
Diffed == pc[1] \in {"commit", "done"}

\* The frame's one row has the text column.
HasText(frame) == \E i \in 1..Len(frame[1]) : frame[1][i][1] = col_name

\* The cell beside the quantity in a row of numeric columns only.
Beside(frame) == frame[1][2]

\* The string a row of one of the shapes is hashed as, its quantity being
\* hashed as q and the number beside it as c: the items in the order of
\* the names.
ShapedAs(frame, q, c) ==
    IF HasText(frame)
    THEN col_name \o <<58>> \o <<97,108,105,99,101>> \o <<124>>
            \o col_qty \o <<58>> \o q
    ELSE Beside(frame)[1] \o <<58>> \o c \o <<124>> \o col_qty \o <<58>> \o q

\* The record_hash column of the one row of a frame.
Hashed(frame) == get_column(frame[1], record_hash).s

\* C10 as stated: every number is hashed as the decimal string of its
\* integer truncation cut to 10 characters, so two rows whose quantities
\* have the same integer truncation get one digest and count as unchanged.
C10_NumericNormalization ==
    Diffed =>
        LET a == Quantity(existing_df[1])
            b == Quantity(df[1])
        IN  /\ Hashed(df[1]) =
                 md5(ShapedAs(df[1], TruncatedDecimal(b),
                              TruncatedDecimal(Beside(df[1])[2])))
            /\ int_of(a) = int_of(b)
               => /\ hashes(df[1]) = hashes(existing_df[1])
                  /\ changes[1] = [inserts |-> 0, updates |-> 0, deletes |-> 0,
                                   unchanged |-> 1, total_processed |-> 1]

\* What a number is hashed as: str(v) when that is at most 10 characters
\* long, else the decimal string of int(v) cut to 10 characters.
HashedAs(v) == IF Len(str_of(v)) <= 10 THEN str_of(v) ELSE TruncatedDecimal(v)

\* The number v of the incoming row as compute_record_hash receives it: an
\* int of a row of numbers, one of them a float, is received as a float.
Received(row, v) ==
    IF /\ \A i \in 1..Len(row) : row[i][2].t \in {"int", "float"}
       /\ \E i \in 1..Len(row) : row[i][2].t = "float"
       /\ v.t = "int"
    THEN PyFloat(v.neg, v.digs, <<0>>)
    ELSE v

\* C10 amended: compute_record_hash hashes a number v it receives as str(v)
\* unless str(v) is longer than 10 characters, and only then as its
\* truncated decimal; two rows it receives that differ in the quantity only
\* get one digest, and then count as unchanged, exactly when these strings
\* are equal, else they surface as one INSERT and one DELETE.
C10_NumericNormalizationAmended ==
    Diffed =>
        LET row == drop_record_hash(df[1][1])
            a == Quantity(existing_df[1])
            b == Received(row, Quantity(df[1]))
            ca == Beside(existing_df[1])[2]
            cb == Received(row, Beside(df[1])[2])
            same == HashedAs(a) = HashedAs(b)
        IN  /\ Hashed(df[1]) = md5(ShapedAs(df[1], HashedAs(b), HashedAs(cb)))
            /\ Hashed(existing_df[1]) =
                 md5(ShapedAs(df[1], HashedAs(a), HashedAs(ca)))
            /\ (HasText(df[1]) \/ ca = cb) =>
                /\ same <=> hashes(df[1]) = hashes(existing_df[1])
                /\ changes[1] =
                     IF same
                     THEN [inserts |-> 0, updates |-> 0, deletes |-> 0,
                           unchanged |-> 1, total_processed |-> 1]
                     ELSE [inserts |-> 1, updates |-> 0, deletes |-> 1,
                           unchanged |-> 0, total_processed |-> 1]
            /\ (a = five /\ b = five_point_zero) => ~same
            /\ (a = three /\ b = three_point_seven) => ~same
            /\ (a = three /\ b = three_long_fraction) => same
            /\ (a = ten_digits /\ b = eleven_digits) => same

\* 3.123456789 was diffed against a snapshot holding 3 and counted as
\* unchanged, with nothing logged.
C10_Witness ==
    /\ pc[1] = "done"
    /\ HasText(df[1])
    /\ Quantity(existing_df[1]) = three
    /\ Quantity(df[1]) = three_long_fraction
    /\ changes[1].unchanged = 1
    /\ change_log = <<>>


(***************************************************************************)
(* Excluded columns: perform_cdc diffs a one-row DataFrame against a       *)
(* one-row snapshot, the rows carrying excluded columns or not             *)
(***************************************************************************)

s_friday == <<102,114,105,100,97,121>>
s_stale == <<115,116,97,108,101>>
col_created == <<99,114,101,97,116,101,100>>

\* Columns added to a row: none, excluded ones of several values and types,
\* and one ("created") that is not excluded.
Decorations ==
    { <<>>,
      <<<<created_at, PyStr(s_monday)>>>>,
      <<<<created_at, PyStr(s_friday)>>, <<updated_at, PyNone>>>>,
      <<<<timestamp, five>>, <<registrant_date, PyStr(s_monday)>>>>,
      <<<<record_hash, PyStr(s_stale)>>>>,
      <<<<record_hash, PyStr(s_stale)>>, <<created_at, PyStr(s_friday)>>>>,
      <<<<col_created, PyStr(s_monday)>>>> }

\* The rows: a person with a decoration before or after its own columns,
\* and a row of numeric columns only, bare and as an import persists it.
DecoratedRows ==
    UNION { {d \o person(n, s_Eng), person(n, s_Eng) \o d} :
                n \in {s_Alice, s_Bob}, d \in Decorations }
        \cup {priced(five), priced(five) \o <<<<record_hash, PyStr(s_stale)>>>>}

\* perform_cdc has been called with one decorated row, against a snapshot
\* that holds one decorated row.
InitExclude ==
    /\ \E a \in DecoratedRows : tables = [t \in {owl_connect_export} |-> <<a>>]
    /\ columns = [t \in DOMAIN tables |-> frame_columns(tables[t])]
    /\ change_log = <<>>
    /\ nruns = 1
    /\ pc = [p \in Procs |-> IF p = 1 THEN "resolve" ELSE "idle"]
    /\ caller = [p \in Procs |-> "cdc"]
    /\ table_name = [p \in Procs |-> owl_connect_export]
    /\ \E b \in DecoratedRows : df = [p \in Procs |-> IF p = 1 THEN <<b>> ELSE <<>>]
    /\ all_tables = [p \in Procs |-> <<>>]
    /\ matching_tables = [p \in Procs |-> <<>>]
    /\ exact_table_name = [p \in Procs |-> <<>>]
    /\ existing_df = [p \in Procs |-> <<>>]
    /\ session = [p \in Procs |-> <<>>]
    /\ changes = [p \in Procs |-> NoChanges]
    /\ error = [p \in Procs |-> "none"]
    /\ run_id = [p \in Procs |-> IF p = 1 THEN 1 ELSE 0]
    /\ tables_at_call = [p \in Procs |-> tables]

SpecExclude == InitExclude /\ [][NextCdc]_vars

\* The columns the claim calls excluded.
VolatileColumns ==
    {created_at, updated_at, timestamp, record_hash, registrant_date}

\* The <<column, value>> pairs of a row outside the excluded columns.
IdentityPart(row) ==
    {row[i] : i \in {j \in 1..Len(row) : row[j][1] \notin VolatileColumns}}

\* C11: two rows that agree on every column outside created_at, updated_at,
\* timestamp, record_hash and registrant_date, whatever excluded columns
\* each carries and with whatever values, get the same digest; the incoming
\* row is then counted as unchanged and nothing is logged for it.
C11_ExclusionInvariance ==
    (Diffed /\ IdentityPart(existing_df[1][1]) = IdentityPart(df[1][1]))
    => /\ compute_record_hash(existing_df[1][1]) = compute_record_hash(df[1][1])
       /\ hashes(existing_df[1]) = hashes(df[1])
       /\ changes[1] = [inserts |-> 0, updates |-> 0, deletes |-> 0,
                        unchanged |-> 1, total_processed |-> 1]
       /\ Produced(1) = <<>>

(***************************************************************************)
(* The snapshot an import leaves                                           *)
(***************************************************************************)

\* The call is an import that returned without raising.
Completed(p) == caller[p] = "import" /\ pc[p] = "done" /\ run_id[p] > 0

\* The rows of a frame without their record_hash column.
Bare(frame) == [i \in 1..Len(frame) |-> drop_record_hash(frame[i])]

\* C12: when an import that resolved table_name to the stored name T has
\* completed, table T holds exactly the incoming rows (so that the next
\* import reads them as its prior snapshot), whichever matching name T is.
C12_ReplaceHitsResolvedTable ==
    \A p \in Procs :
        (Completed(p) /\ matching_tables[p] # <<>>)
        => /\ exact_table_name[p] \in DOMAIN tables
           /\ Bare(tables[exact_table_name[p]]) = Bare(df[p])

\* The digests perform_cdc computes for a frame it reads.
Digests(frame) == hash_set(with_record_hash(frame))

\* C13 as stated: unchanged is the number of digests present in both the
\* incoming dataset and the prior snapshot, and no change-log row carries
\* one of these digests.
C13_UnchangedCountsDigests ==
    \A p \in Procs :
        Classified(p)
        => LET both == hash_set(df[p]) \cap hash_set(existing_df[p])
           IN  /\ changes[p].unchanged = Cardinality(both)
               /\ \A i \in 1..Len(Produced(p)) :
                     Produced(p)[i].record_id \notin both

\* C13 amended: unchanged is the number of incoming rows whose digest the
\* prior snapshot holds, each row that shares a digest counting once; with
\* inserts it adds up to total_processed; and no change-log row carries a
\* digest present in both.
C13_UnchangedCountsRows ==
    \A p \in Procs :
        Classified(p)
        => LET both == hash_set(df[p]) \cap hash_set(existing_df[p])
               kept == {i \in 1..Len(df[p]) :
                          hashes(df[p])[i] \in hash_set(existing_df[p])}
           IN  /\ changes[p].unchanged = Cardinality(kept)
               /\ changes[p].inserts + changes[p].unchanged
                     = changes[p].total_processed
               /\ \A i \in 1..Len(Produced(p)) :
                     Produced(p)[i].record_id \notin both

\* Two incoming rows of one digest were diffed against a snapshot that
\* holds that digest once: unchanged is 2, and nothing was logged.
C13_Witness ==
    /\ pc[1] = "done"
    /\ Len(df[1]) = 2
    /\ Cardinality(hash_set(df[1])) = 1
    /\ Len(existing_df[1]) = 1
    /\ hash_set(existing_df[1]) = hash_set(df[1])
    /\ changes[1].unchanged = 2
    /\ RunRecords(1) = <<>>

\* The digests of the snapshot table in store T (none when it is absent).
SnapshotDigests(T) ==
    IF owl_connect_export \in DOMAIN T THEN Digests(T[owl_connect_export]) ELSE {}

\* The record_ids of the rows of one type a call committed.
CommittedIds(p, type) ==
    {OfType(RunRecords(p), type)[i].record_id :
        i \in 1..Len(OfType(RunRecords(p), type))}

\* C14: when an import has completed, the digests of the snapshot it met,
\* with the record_ids of its INSERT rows added and those of its DELETE
\* rows removed, are the digests of the snapshot it left; an import of an
\* empty dataset included.
C14_LogMatchesSnapshot ==
    \A p \in Procs :
        Completed(p)
        => (SnapshotDigests(tables_at_call[p]) \cup CommittedIds(p, "INSERT"))
                \ CommittedIds(p, "DELETE")
           = SnapshotDigests(tables)

=============================================================================
